---- MODULE Spec2Model ----
(***************************************************************************)
(* Nodal-analysis assembly of the SPICE simulator: ConductanceMatrix.cpp   *)
(* builds the complex conductance matrix G and the excitation vector I of  *)
(* a circuit (a list of Component objects) and hands them to the linear    *)
(* solver.  The model follows solveAtFrequency step by step: one action    *)
(* per loop iteration of getConductanceMatrix and getCurrentVector.        *)
(*                                                                         *)
(* Numbers.  A complex number is a pair <<re, im>> of integers.  Phases    *)
(* are counted in quarter turns, so that std::polar is exact; admittances  *)
(* are fixed-point numbers with YScale units per siemens.                  *)
(* Indices.  C++ vectors are 0-based, TLA+ sequences 1-based: nodes[0] of  *)
(* the source is nodes[1] here, components[i] is components[i + 1].  The   *)
(* matrix and the vector keep the 0-based indices of the source            *)
(* (node - 1).                                                             *)
(***************************************************************************)
EXTENDS Integers, Sequences, FiniteSets, TLC

VARIABLES components, angFreq, conductanceMatrix, currentVector,
          voltageSources, i, pc, accessed, solution

vars == <<components, angFreq, conductanceMatrix, currentVector,
          voltageSources, i, pc, accessed, solution>>

(***************************************************************************)
(* Bounds of the model.                                                    *)
(***************************************************************************)
HighestNode == 2
MaxLen == 2
MaxOmega == 1
\* fixed-point unit of an admittance, and the admittance of an inductor at DC
YScale == 4
GShort == 9

numNodes == HighestNode
NodeIds == 0..HighestNode
Index == 0..(numNodes - 1)
Phases == {0, 1}
Values == {1}
Omegas == 0..MaxOmega

(***************************************************************************)
(* Complex arithmetic.                                                     *)
(***************************************************************************)
CZero == <<0, 0>>
COne == <<1, 0>>
CAdd(x, y) == <<x[1] + y[1], x[2] + y[2]>>
CSub(x, y) == <<x[1] - y[1], x[2] - y[2]>>
CNeg(x) == <<0 - x[1], 0 - x[2]>>

\* std::polar(amplitude, phase), the phase in quarter turns
polar(amplitude, phase) ==
    CASE phase % 4 = 0 -> <<amplitude, 0>>
      [] phase % 4 = 1 -> <<0, amplitude>>
      [] phase % 4 = 2 -> <<0 - amplitude, 0>>
      [] phase % 4 = 3 -> <<0, 0 - amplitude>>

(***************************************************************************)
(* Components (Component.h).  A component is a record of its class, its    *)
(* node list and its property list.                                        *)
(***************************************************************************)
Pairs == NodeIds \X NodeIds

Resistor == {[type |-> "Resistor", nodes |-> <<p[1], p[2]>>, props |-> <<v>>] :
                p \in Pairs, v \in Values}
Capacitor == {[type |-> "Capacitor", nodes |-> <<p[1], p[2]>>, props |-> <<v>>] :
                p \in Pairs, v \in Values}
Inductor == {[type |-> "Inductor", nodes |-> <<p[1], p[2]>>, props |-> <<v>>] :
                p \in Pairs, v \in Values}
DCVoltageSource == {[type |-> "DCVoltageSource", nodes |-> <<p[1], p[2]>>, props |-> <<v>>] :
                p \in Pairs, v \in Values}
ACVoltageSource == {[type |-> "ACVoltageSource", nodes |-> <<p[1], p[2]>>, props |-> <<v, ph>>] :
                p \in Pairs, v \in Values, ph \in Phases}
DCCurrentSource == {[type |-> "DCCurrentSource", nodes |-> <<p[1], p[2]>>, props |-> <<v>>] :
                p \in Pairs, v \in Values}
ACCurrentSource == {[type |-> "ACCurrentSource", nodes |-> <<p[1], p[2]>>, props |-> <<v, ph>>] :
                p \in Pairs, v \in Values, ph \in Phases}
VoltageControlledCurrentSource ==
    {[type |-> "VoltageControlledCurrentSource",
      nodes |-> <<p[1], p[2], q[1], q[2]>>, props |-> <<v>>] :
                p \in Pairs, q \in Pairs, v \in Values}

getNodes(component) == component.nodes
getProperties(component) == component.props

\* the admittance of a linear two-terminal device between its two nodes
getConductance(component, p_node1, p_node2, p_angularFrequency) ==
    CASE component.type = "Resistor" ->
            <<YScale \div component.props[1], 0>>
      [] component.type = "Capacitor" ->
            <<0, p_angularFrequency * component.props[1]>>
      [] component.type = "Inductor" ->
            IF p_angularFrequency = 0
            THEN <<GShort, 0>>
            ELSE <<0, 0 - (YScale \div (p_angularFrequency * component.props[1]))>>
      [] OTHER -> CZero

(***************************************************************************)
(* Eigen matrices and vectors.  A matrix under assembly is a record of its *)
(* entries m and of the set acc of index pairs the handlers have accessed  *)
(* since the record was made; an access outside the matrix is recorded in  *)
(* acc and leaves m alone.                                                 *)
(***************************************************************************)
MatrixZero == [rc \in Index \X Index |-> CZero]
VectorZero == [r \in Index |-> CZero]
Fresh(m) == [m |-> m, acc |-> {}]

InMatrix(r, c) == r \in Index /\ c \in Index

MatSub(G, r, c, y) ==
    [m |-> IF InMatrix(r, c) THEN [G.m EXCEPT ![<<r, c>>] = CSub(@, y)] ELSE G.m,
     acc |-> G.acc \cup {<<r, c>>}]
MatAdd(G, r, c, y) ==
    [m |-> IF InMatrix(r, c) THEN [G.m EXCEPT ![<<r, c>>] = CAdd(@, y)] ELSE G.m,
     acc |-> G.acc \cup {<<r, c>>}]
MatSet(G, r, c, y) ==
    [m |-> IF InMatrix(r, c) THEN [G.m EXCEPT ![<<r, c>>] = y] ELSE G.m,
     acc |-> G.acc \cup {<<r, c>>}]
\* conductanceMatrix.row(r) -= conductanceMatrix.row(r)
RowSubSelf(G, r) ==
    [m |-> [rc \in Index \X Index |->
                IF rc[1] = r THEN CSub(G.m[rc], G.m[rc]) ELSE G.m[rc]],
     acc |-> G.acc \cup {<<r, c>> : c \in Index}]

BoolToInt(b) == IF b THEN 1 ELSE 0

(***************************************************************************)
(* The handlers of ConductanceMatrix.cpp.                                  *)
(***************************************************************************)
\* Variant: the off-diagonal stamp is guarded by nodes[0] alone.
matrixHandleTwoTerminalComponent_unguarded(G, component, nodes, p_angFreq) ==
    LET y01 == getConductance(component, nodes[1], nodes[2], p_angFreq)
        y10 == getConductance(component, nodes[2], nodes[1], p_angFreq)
        g1 == IF nodes[1] # 0
              THEN MatSub(MatSub(G, nodes[1] - 1, nodes[2] - 1, y01),
                          nodes[2] - 1, nodes[1] - 1, y10)
              ELSE G
        g2 == IF nodes[1] # 0
              THEN MatAdd(g1, nodes[1] - 1, nodes[1] - 1, y01)
              ELSE g1
    IN  IF nodes[2] # 0
        THEN MatAdd(g2, nodes[2] - 1, nodes[2] - 1, y10)
        ELSE g2

\* Variant: the second off-diagonal stamp, G[b,a] -= y, is missing.
matrixHandleTwoTerminalComponent_oneSided(G, component, nodes, p_angFreq) ==
    LET y01 == getConductance(component, nodes[1], nodes[2], p_angFreq)
        y10 == getConductance(component, nodes[2], nodes[1], p_angFreq)
        g1 == IF nodes[1] # 0 /\ nodes[BoolToInt(1 # 0) + 1] # 0
              THEN MatSub(G, nodes[1] - 1, nodes[2] - 1, y01)
              ELSE G
        g2 == IF nodes[1] # 0
              THEN MatAdd(g1, nodes[1] - 1, nodes[1] - 1, y01)
              ELSE g1
    IN  IF nodes[2] # 0
        THEN MatAdd(g2, nodes[2] - 1, nodes[2] - 1, y10)
        ELSE g2

matrixHandleTwoTerminalComponent(G, component, nodes, p_angFreq) ==
    LET y01 == getConductance(component, nodes[1], nodes[2], p_angFreq)
        y10 == getConductance(component, nodes[2], nodes[1], p_angFreq)
        \* nodes[1 != 0]: the index is the truth value of 1 != 0
        g1 == IF nodes[1] # 0 /\ nodes[BoolToInt(1 # 0) + 1] # 0
              THEN MatSub(MatSub(G, nodes[1] - 1, nodes[2] - 1, y01),
                          nodes[2] - 1, nodes[1] - 1, y10)
              ELSE G
        g2 == IF nodes[1] # 0
              THEN MatAdd(g1, nodes[1] - 1, nodes[1] - 1, y01)
              ELSE g1
    IN  IF nodes[2] # 0
        THEN MatAdd(g2, nodes[2] - 1, nodes[2] - 1, y10)
        ELSE g2

matrixHandleVoltageSource(G, component) ==
    LET nodes == getNodes(component)
        nodePlus == nodes[1]
        nodeMinus == nodes[2]
    IN  IF nodePlus = nodeMinus THEN G
        ELSE IF nodePlus # 0 /\ nodeMinus # 0
        THEN MatSet(MatSet(RowSubSelf(G, nodePlus - 1),
                           nodePlus - 1, nodePlus - 1, COne),
                    nodePlus - 1, nodeMinus - 1, CNeg(COne))
        ELSE IF nodePlus # 0 /\ nodeMinus = 0
        THEN MatSet(RowSubSelf(G, nodePlus - 1), nodePlus - 1, nodePlus - 1, COne)
        ELSE IF nodePlus = 0 /\ nodeMinus # 0
        THEN MatSet(RowSubSelf(G, nodeMinus - 1), nodeMinus - 1, nodeMinus - 1, CNeg(COne))
        ELSE G

\* the matrix after the call and the value left in isVoltageSource
updateConductanceMatrix(G, component, p_angFreq) ==
    IF component.type \in {"DCCurrentSource", "ACCurrentSource"}
    THEN [G |-> G, isVoltageSource |-> FALSE]
    ELSE IF component.type \in {"DCVoltageSource", "ACVoltageSource"}
    THEN [G |-> G, isVoltageSource |-> TRUE]
    ELSE LET nodes == getNodes(component)
         IN  [G |-> IF Len(nodes) = 2
                    THEN matrixHandleTwoTerminalComponent(G, component, nodes, p_angFreq)
                    ELSE G,
              isVoltageSource |-> FALSE]

\* Variant: the current enters at nodes[0] and leaves at nodes[1].
vectorHandleACCurrentSource_swapped(I, component) ==
    LET nodes == getNodes(component)
        amplitude == getProperties(component)[1]
        phase == getProperties(component)[2]
        current == polar(amplitude, phase)
        i1 == IF nodes[1] # 0
              THEN [I EXCEPT ![nodes[1] - 1] = CAdd(@, current)]
              ELSE I
    IN  IF nodes[2] # 0
        THEN [i1 EXCEPT ![nodes[2] - 1] = CSub(@, current)]
        ELSE i1

vectorHandleACCurrentSource(I, component) ==
    LET nodes == getNodes(component)
        amplitude == getProperties(component)[1]
        phase == getProperties(component)[2]
        current == polar(amplitude, phase)
        i1 == IF nodes[1] # 0
              THEN [I EXCEPT ![nodes[1] - 1] = CSub(@, current)]
              ELSE I
    IN  IF nodes[2] # 0
        THEN [i1 EXCEPT ![nodes[2] - 1] = CAdd(@, current)]
        ELSE i1

\* junk: the phase read at properties[1] when the property list is shorter
vectorHandleVoltageSource(I, component, junk) ==
    LET isDC == component.type = "DCVoltageSource"
        properties == getProperties(component)
        voltage == IF ~isDC
                   THEN polar(properties[1],
                              IF Len(properties) >= 2 THEN properties[2] ELSE junk)
                   ELSE <<properties[1], 0>>
        nodes == getNodes(component)
        nodePlus == nodes[1]
        nodeMinus == nodes[2]
    IN  IF nodePlus = nodeMinus THEN I
        ELSE IF nodePlus = 0
        THEN [I EXCEPT ![nodeMinus - 1] = IF isDC THEN CZero ELSE voltage]
        ELSE [I EXCEPT ![nodePlus - 1] = IF isDC THEN CZero ELSE voltage]

\* TRUE when the call reads properties[1] of a list that has no such entry
ReadsPastProperties(component) ==
    component.type # "DCVoltageSource" /\ Len(getProperties(component)) < 2

updateCurrentVector(I, component) ==
    IF component.type = "ACCurrentSource"
    THEN [I |-> vectorHandleACCurrentSource(I, component), isVoltageSource |-> FALSE]
    ELSE IF component.type \in {"DCVoltageSource", "ACVoltageSource"}
    THEN [I |-> I, isVoltageSource |-> TRUE]
    ELSE [I |-> I, isVoltageSource |-> FALSE]

(***************************************************************************)
(* The two assembly functions as functions of the component list.  The     *)
(* first loop visits every component and collects the positions of the     *)
(* voltage sources; the second loop runs once per collected position.      *)
(* junk[k] is the value a read past the property list yields in the k-th   *)
(* iteration of the second loop of getCurrentVector.                       *)
(***************************************************************************)
RECURSIVE MatrixFirstLoop(_, _, _, _)
MatrixFirstLoop(st, p_components, p_angFreq, k) ==
    IF k >= Len(p_components) THEN st
    ELSE LET r == updateConductanceMatrix(st.G, p_components[k + 1], p_angFreq)
         IN  MatrixFirstLoop(
                [G |-> r.G,
                 voltageSources |-> IF r.isVoltageSource
                                    THEN Append(st.voltageSources, k)
                                    ELSE st.voltageSources],
                p_components, p_angFreq, k + 1)

RECURSIVE MatrixSecondLoop(_, _, _, _)
MatrixSecondLoop(G, p_components, p_voltageSources, k) ==
    IF k >= Len(p_voltageSources) THEN G
    ELSE MatrixSecondLoop(matrixHandleVoltageSource(G, p_components[k + 1]),
                          p_components, p_voltageSources, k + 1)

getConductanceMatrix(p_components, p_numNodes, p_angFreq) ==
    LET first == MatrixFirstLoop([G |-> Fresh(MatrixZero), voltageSources |-> <<>>],
                                 p_components, p_angFreq, 0)
    IN  MatrixSecondLoop(first.G, p_components, first.voltageSources, 0).m

RECURSIVE VectorFirstLoop(_, _, _)
VectorFirstLoop(st, p_components, k) ==
    IF k >= Len(p_components) THEN st
    ELSE LET r == updateCurrentVector(st.I, p_components[k + 1])
         IN  VectorFirstLoop(
                [I |-> r.I,
                 voltageSources |-> IF r.isVoltageSource
                                    THEN Append(st.voltageSources, k)
                                    ELSE st.voltageSources],
                p_components, k + 1)

RECURSIVE VectorSecondLoop(_, _, _, _, _)
VectorSecondLoop(I, p_components, p_voltageSources, junk, k) ==
    IF k >= Len(p_voltageSources) THEN I
    ELSE VectorSecondLoop(vectorHandleVoltageSource(I, p_components[k + 1], junk[k + 1]),
                          p_components, p_voltageSources, junk, k + 1)

getCurrentVector(p_components, p_numNodes, junk) ==
    LET first == VectorFirstLoop([I |-> VectorZero, voltageSources |-> <<>>],
                                 p_components, 0)
    IN  VectorSecondLoop(first.I, p_components, first.voltageSources, junk, 0)

(***************************************************************************)
(* solveAtFrequency, one step at a time.                                   *)
(***************************************************************************)
TypeOK ==
    /\ components \in Seq(Resistor \cup Capacitor \cup Inductor \cup DCVoltageSource
                          \cup ACVoltageSource \cup DCCurrentSource \cup ACCurrentSource
                          \cup VoltageControlledCurrentSource)
    /\ angFreq \in Omegas
    /\ DOMAIN conductanceMatrix = Index \X Index
    /\ DOMAIN currentVector = Index
    /\ voltageSources \in Seq(0..Len(components))
    /\ i \in 0..Len(components)
    /\ pc \in {"matrixStamp", "matrixReplace", "vectorStamp", "vectorReplace",
               "solve", "done"}
    /\ solution \in {"unset", "returned"}

SeqsUpTo(S, n) == UNION {[1..k -> S] : k \in 0..n}

\* the state at the entry of the function that starts at program point start
InitOf(Universe, maxLen, omegas, start) ==
    /\ components \in SeqsUpTo(Universe, maxLen)
    /\ angFreq \in omegas
    /\ conductanceMatrix = MatrixZero
    /\ currentVector = VectorZero
    /\ voltageSources = <<>>
    /\ i = 0
    /\ pc = start
    /\ accessed = {}
    /\ solution = "unset"

\* getConductanceMatrix, first loop: one component
MatrixStampStep ==
    /\ pc = "matrixStamp"
    /\ i < Len(components)
    /\ LET r == updateConductanceMatrix(Fresh(conductanceMatrix), components[i + 1], angFreq)
       IN  /\ conductanceMatrix' = r.G.m
           /\ accessed' = r.G.acc
           /\ voltageSources' = IF r.isVoltageSource
                                THEN Append(voltageSources, i)
                                ELSE voltageSources
    /\ i' = i + 1
    /\ UNCHANGED <<components, angFreq, currentVector, pc, solution>>

MatrixStampDone ==
    /\ pc = "matrixStamp"
    /\ i >= Len(components)
    /\ pc' = "matrixReplace"
    /\ i' = 0
    /\ accessed' = {}
    /\ UNCHANGED <<components, angFreq, conductanceMatrix, currentVector,
                   voltageSources, solution>>

\* getConductanceMatrix, second loop: matrixHandleVoltageSource(components[i])
MatrixReplaceStep ==
    /\ pc = "matrixReplace"
    /\ i < Len(voltageSources)
    /\ LET g == matrixHandleVoltageSource(Fresh(conductanceMatrix), components[i + 1])
       IN  /\ conductanceMatrix' = g.m
           /\ accessed' = g.acc
    /\ i' = i + 1
    /\ UNCHANGED <<components, angFreq, currentVector, voltageSources, pc, solution>>

\* getConductanceMatrix returns; getCurrentVector starts
MatrixReturn ==
    /\ pc = "matrixReplace"
    /\ i >= Len(voltageSources)
    /\ pc' = "vectorStamp"
    /\ i' = 0
    /\ voltageSources' = <<>>
    /\ currentVector' = VectorZero
    /\ accessed' = {}
    /\ UNCHANGED <<components, angFreq, conductanceMatrix, solution>>

\* getCurrentVector, first loop: one component
VectorStampStep ==
    /\ pc = "vectorStamp"
    /\ i < Len(components)
    /\ LET r == updateCurrentVector(currentVector, components[i + 1])
       IN  /\ currentVector' = r.I
           /\ voltageSources' = IF r.isVoltageSource
                                THEN Append(voltageSources, i)
                                ELSE voltageSources
    /\ i' = i + 1
    /\ UNCHANGED <<components, angFreq, conductanceMatrix, pc, accessed, solution>>

VectorStampDone ==
    /\ pc = "vectorStamp"
    /\ i >= Len(components)
    /\ pc' = "vectorReplace"
    /\ i' = 0
    /\ UNCHANGED <<components, angFreq, conductanceMatrix, currentVector,
                   voltageSources, accessed, solution>>

\* getCurrentVector, second loop: vectorHandleVoltageSource(components[i]).  A
\* read past the end of the property list yields an arbitrary phase.
VectorReplaceStep ==
    /\ pc = "vectorReplace"
    /\ i < Len(voltageSources)
    /\ \E junk \in (IF ReadsPastProperties(components[i + 1]) THEN Phases ELSE {0}) :
          currentVector' = vectorHandleVoltageSource(currentVector, components[i + 1], junk)
    /\ i' = i + 1
    /\ UNCHANGED <<components, angFreq, conductanceMatrix, voltageSources, pc,
                   accessed, solution>>

VectorReturn ==
    /\ pc = "vectorReplace"
    /\ i >= Len(voltageSources)
    /\ pc' = "solve"
    /\ i' = 0
    /\ UNCHANGED <<components, angFreq, conductanceMatrix, currentVector,
                   voltageSources, accessed, solution>>

\* conductanceMatrix.colPivHouseholderQr().solve(currentVector); return solution
Solve ==
    /\ pc = "solve"
    /\ solution' = "returned"
    /\ pc' = "done"
    /\ UNCHANGED <<components, angFreq, conductanceMatrix, currentVector,
                   voltageSources, i, accessed>>

Next ==
    \/ MatrixStampStep
    \/ MatrixStampDone
    \/ MatrixReplaceStep
    \/ MatrixReturn
    \/ VectorStampStep
    \/ VectorStampDone
    \/ VectorReplaceStep
    \/ VectorReturn
    \/ Solve

\* solveAtFrequency on circuits of resistors and voltage sources
Init == InitOf(Resistor \cup ACVoltageSource \cup DCVoltageSource, MaxLen, Omegas,
               "matrixStamp")
Spec == Init /\ [][Next]_vars

\* solveAtFrequency on longer circuits of resistors and AC voltage sources
InitSources == InitOf(Resistor \cup ACVoltageSource, MaxLen + 1, {1}, "matrixStamp")
SpecSources == InitSources /\ [][Next]_vars

\* getConductanceMatrix alone, on a circuit without voltage sources
NextMatrix ==
    \/ MatrixStampStep
    \/ MatrixStampDone
    \/ MatrixReturn

\* getCurrentVector alone, on a circuit without voltage sources
NextVector ==
    \/ VectorStampStep
    \/ VectorStampDone
    \/ VectorReturn

\* getConductanceMatrix on circuits of linear two-terminal admittances
InitPassive == InitOf(Resistor \cup Capacitor \cup Inductor, MaxLen, Omegas, "matrixStamp")
SpecPassive == InitPassive /\ [][NextMatrix]_vars

\* getCurrentVector on circuits of current sources and resistors
InitCurrent == InitOf(ACCurrentSource \cup DCCurrentSource \cup Resistor, MaxLen, {1},
                      "vectorStamp")
SpecCurrent == InitCurrent /\ [][NextVector]_vars

\* getConductanceMatrix on circuits of controlled sources and resistors
InitControlled == InitOf(VoltageControlledCurrentSource \cup Resistor, MaxLen, {1},
                         "matrixStamp")
SpecControlled == InitControlled /\ [][NextMatrix]_vars

(***************************************************************************)
(* Vocabulary of the properties.                                           *)
(***************************************************************************)
RECURSIVE CSum(_)
CSum(terms) == IF terms = <<>> THEN CZero ELSE CAdd(terms[1], CSum(Tail(terms)))

IsVoltageSource(c) == c.type \in {"DCVoltageSource", "ACVoltageSource"}
IsPassive(c) == c.type \in {"Resistor", "Capacitor", "Inductor"}
Positions == 1..Len(components)
MatrixReturned == pc \in {"vectorStamp", "vectorReplace", "solve", "done"}
Assembled == pc \in {"solve", "done"}

\* a voltage source that constrains a row, and the node of that row
Constrains(c) == IsVoltageSource(c) /\ c.nodes[1] # c.nodes[2]
ConstrainedNode(c) == IF c.nodes[1] # 0 THEN c.nodes[1] ELSE c.nodes[2]
\* the row a voltage source writes: G[n+,n+] = 1, G[n+,n-] = -1, or G[n-,n-] = -1
SourceRow(c) ==
    [col \in Index |->
        IF c.nodes[1] # 0
        THEN IF col = c.nodes[1] - 1 THEN COne
             ELSE IF col = c.nodes[2] - 1 THEN CNeg(COne)
             ELSE CZero
        ELSE IF col = c.nodes[2] - 1 THEN CNeg(COne) ELSE CZero]
RowOf(G, r) == [col \in Index |-> G[<<r, col>>]]
Phasor(c) == polar(c.props[1], c.props[2])

\* what the additive stamp of a two-terminal admittance y between a and b adds
\* to entry (r, c)
StampDelta(a, b, y, r, c) ==
    CSub(CAdd(IF a # 0 /\ r = a - 1 /\ c = a - 1 THEN y ELSE CZero,
              IF b # 0 /\ r = b - 1 /\ c = b - 1 THEN y ELSE CZero),
         CAdd(IF a # 0 /\ b # 0 /\ r = a - 1 /\ c = b - 1 THEN y ELSE CZero,
              IF a # 0 /\ b # 0 /\ r = b - 1 /\ c = a - 1 THEN y ELSE CZero))
\* the sum of the additive stamps of all passive devices of a list at entry (r, c)
AdditiveEntry(comps, r, c) ==
    CSum([k \in 1..Len(comps) |->
            IF IsPassive(comps[k])
            THEN StampDelta(comps[k].nodes[1], comps[k].nodes[2],
                            getConductance(comps[k], comps[k].nodes[1],
                                           comps[k].nodes[2], angFreq), r, c)
            ELSE CZero])

Remove(s, k) == [j \in 1..(Len(s) - 1) |-> IF j < k THEN s[j] ELSE s[j + 1]]
Junks(n) == [1..n -> Phases]
\* the vectors getCurrentVector can return for a list
CurrentVectors(comps) ==
    {getCurrentVector(comps, numNodes, junk) : junk \in Junks(Len(comps))}

\* The stepwise run and the functions agree on the result.
StepsAgreeWithFunctions ==
    /\ MatrixReturned =>
            conductanceMatrix = getConductanceMatrix(components, numNodes, angFreq)
    /\ Assembled => currentVector \in CurrentVectors(components)

(***************************************************************************)
(* C4.  matrixHandleTwoTerminalComponent, for a device of admittance y     *)
(* between nodes a and b, adds y to G[a,a] when a is not ground, adds y to *)
(* G[b,b] when b is not ground, subtracts y from G[a,b] and from G[b,a]    *)
(* exactly when neither is ground, and changes no other entry; every index *)
(* it accesses lies in the matrix (no row or column -1), and with exactly  *)
(* one terminal grounded it accesses one diagonal entry only.              *)
(***************************************************************************)
C4_TwoTerminalStamp ==
    [][(pc = "matrixStamp" /\ i < Len(components) /\ IsPassive(components[i + 1])) =>
        LET a == components[i + 1].nodes[1]
            b == components[i + 1].nodes[2]
            y == getConductance(components[i + 1], a, b, angFreq)
        IN  /\ \A r \in Index, c \in Index :
                  conductanceMatrix'[<<r, c>>] =
                      CAdd(conductanceMatrix[<<r, c>>], StampDelta(a, b, y, r, c))
            /\ \A rc \in accessed' : InMatrix(rc[1], rc[2])
            /\ (a # 0 /\ b = 0) => accessed' = {<<a - 1, a - 1>>}
            /\ (a = 0 /\ b # 0) => accessed' = {<<b - 1, b - 1>>}
            /\ (a # 0 /\ b # 0) =>
                  accessed' = {<<a - 1, a - 1>>, <<b - 1, b - 1>>,
                               <<a - 1, b - 1>>, <<b - 1, a - 1>>}
            /\ (a = 0 /\ b = 0) => accessed' = {}
      ]_vars

\* a device with one grounded terminal has been stamped onto a matrix that
\* already held an off-diagonal stamp
C4_Witness ==
    /\ pc = "matrixStamp"
    /\ i = 2
    /\ components[1].nodes[1] # 0 /\ components[1].nodes[2] # 0
    /\ components[1].nodes[1] # components[1].nodes[2]
    /\ components[2].nodes[1] # 0 /\ components[2].nodes[2] = 0
    /\ accessed = {<<components[2].nodes[1] - 1, components[2].nodes[1] - 1>>}
    /\ conductanceMatrix[<<0, 1>>] # CZero

(***************************************************************************)
(* C3.  For a circuit of resistors, capacitors and inductors only, at      *)
(* every angular frequency, the matrix getConductanceMatrix returns is     *)
(* symmetric and each diagonal entry G[n,n] is the sum of the admittances  *)
(* of the devices that have node n as a terminal.                          *)
(***************************************************************************)
Symmetric(G) == \A r \in Index, c \in Index : G[<<r, c>>] = G[<<c, r>>]
\* the sum of the admittances of the devices with a terminal at node n
IncidentSum(n) ==
    CSum([k \in Positions |->
            IF n \in {components[k].nodes[1], components[k].nodes[2]}
            THEN getConductance(components[k], components[k].nodes[1],
                                components[k].nodes[2], angFreq)
            ELSE CZero])
\* the same sum over the devices whose two terminals are different nodes
IncidentSumDistinct(n) ==
    CSum([k \in Positions |->
            IF /\ n \in {components[k].nodes[1], components[k].nodes[2]}
               /\ components[k].nodes[1] # components[k].nodes[2]
            THEN getConductance(components[k], components[k].nodes[1],
                                components[k].nodes[2], angFreq)
            ELSE CZero])
AllPassive == \A k \in Positions : IsPassive(components[k])

C3_SymmetricIncidentSum ==
    (MatrixReturned /\ AllPassive) =>
        /\ Symmetric(conductanceMatrix)
        /\ \A n \in 1..numNodes : conductanceMatrix[<<n - 1, n - 1>>] = IncidentSum(n)

\* C3 as amended: the diagonal entry is the sum over the devices that join
\* node n to a different node; a device with both terminals on n adds nothing.
C3_SymmetricDistinctSum ==
    (MatrixReturned /\ AllPassive) =>
        /\ Symmetric(conductanceMatrix)
        /\ \A n \in 1..numNodes :
              conductanceMatrix[<<n - 1, n - 1>>] = IncidentSumDistinct(n)

\* two devices meet at node 1, one of them reaching node 2, at a frequency
\* where both admittances are non-zero
C3_Witness ==
    /\ MatrixReturned
    /\ Len(components) = 2
    /\ components[1].nodes = <<1, 2>>
    /\ components[2].nodes = <<0, 1>>
    /\ components[1].type # components[2].type
    /\ conductanceMatrix[<<0, 1>>] # CZero
    /\ conductanceMatrix[<<0, 0>>] # conductanceMatrix[<<1, 1>>]

(***************************************************************************)
(* C9.  In a circuit without voltage sources each AC current source with   *)
(* phasor I~ and terminals (nIn, nOut) subtracts I~ from I[nIn] when nIn   *)
(* is not ground and adds I~ to I[nOut] when nOut is not ground, and no    *)
(* other component changes I; the vector getCurrentVector returns has at   *)
(* node n the sum of the phasors of the AC current sources with nOut = n   *)
(* minus the sum of those with nIn = n, DC current sources adding nothing. *)
(***************************************************************************)
NoVoltageSource == \A k \in Positions : ~IsVoltageSource(components[k])
OutSum(n) ==
    CSum([k \in Positions |->
            IF components[k].type = "ACCurrentSource" /\ components[k].nodes[2] = n
            THEN Phasor(components[k]) ELSE CZero])
InSum(n) ==
    CSum([k \in Positions |->
            IF components[k].type = "ACCurrentSource" /\ components[k].nodes[1] = n
            THEN Phasor(components[k]) ELSE CZero])
CurrentDelta(c, r) ==
    IF c.type = "ACCurrentSource"
    THEN CSub(IF c.nodes[2] # 0 /\ r = c.nodes[2] - 1 THEN Phasor(c) ELSE CZero,
              IF c.nodes[1] # 0 /\ r = c.nodes[1] - 1 THEN Phasor(c) ELSE CZero)
    ELSE CZero

C9_CurrentSourceStamp ==
    /\ [][(NoVoltageSource /\ pc = "vectorStamp" /\ i < Len(components)) =>
            \A r \in Index :
                currentVector'[r] = CAdd(currentVector[r],
                                         CurrentDelta(components[i + 1], r))]_vars
    /\ [](NoVoltageSource /\ Assembled =>
            \A n \in 1..numNodes : currentVector[n - 1] = CSub(OutSum(n), InSum(n)))

\* an AC source between two unknown nodes next to a DC source on one of them
C9_Witness ==
    /\ Assembled
    /\ NoVoltageSource
    /\ \E k \in Positions :
          /\ components[k].type = "ACCurrentSource"
          /\ components[k].nodes = <<1, 2>>
    /\ \E k \in Positions :
          /\ components[k].type = "DCCurrentSource"
          /\ components[k].nodes[2] = 2
    /\ currentVector[0] # CZero
    /\ currentVector[1] = CNeg(currentVector[0])

(***************************************************************************)
(* C1.  For every AC voltage source with n+ # n- that is the only voltage  *)
(* source on its constrained node, wherever it stands in the list, the     *)
(* assembled system has that source's row replaced after all additive      *)
(* stamps: the row of G is zero except G[n+,n+] = 1 and G[n+,n-] = -1      *)
(* (or G[n-,n-] = -1 when n+ is ground) and the entry of I is the source's *)
(* phasor; and no row of a device that is not a voltage source is          *)
(* replaced: a row no voltage source constrains holds the additive stamps. *)
(***************************************************************************)
OnlySourceOnNode(k) ==
    \A j \in Positions \ {k} :
        Constrains(components[j]) =>
            ConstrainedNode(components[j]) # ConstrainedNode(components[k])
RowConstrained(r) ==
    \E k \in Positions :
        Constrains(components[k]) /\ ConstrainedNode(components[k]) = r + 1

C1_SourceRowReplaced ==
    Assembled =>
        /\ \A k \in Positions :
              (/\ components[k].type = "ACVoltageSource"
               /\ Constrains(components[k])
               /\ OnlySourceOnNode(k)) =>
                  LET r == ConstrainedNode(components[k]) - 1
                  IN  /\ RowOf(conductanceMatrix, r) = SourceRow(components[k])
                      /\ currentVector[r] = Phasor(components[k])
        /\ \A r \in Index :
              ~RowConstrained(r) =>
                  \A c \in Index :
                      conductanceMatrix[<<r, c>>] = AdditiveEntry(components, r, c)

(***************************************************************************)
(* C2.  Assembly does not depend on the order of the devices: for every    *)
(* permutation of the list that keeps the voltage sources in their         *)
(* relative order, getConductanceMatrix returns the same G and             *)
(* getCurrentVector the same I.                                            *)
(***************************************************************************)
Orderings(n) == {f \in [1..n -> 1..n] : \A a, b \in 1..n : a # b => f[a] # f[b]}
\* the list whose k-th device is the f[k]-th device of comps
Permuted(comps, f) == [k \in 1..Len(comps) |-> comps[f[k]]]
KeepsSourceOrder(comps, f) ==
    \A a, b \in 1..Len(comps) :
        (a < b /\ IsVoltageSource(comps[f[a]]) /\ IsVoltageSource(comps[f[b]])) =>
            f[a] < f[b]

C2_OrderIndependent ==
    Assembled =>
        \A f \in Orderings(Len(components)) :
            KeepsSourceOrder(components, f) =>
                /\ getConductanceMatrix(Permuted(components, f), numNodes, angFreq)
                      = conductanceMatrix
                /\ currentVector \in CurrentVectors(Permuted(components, f))

(***************************************************************************)
(* C5.  A DC voltage source of value V with n+ # n-, the only voltage      *)
(* source on its constrained node, puts V into its row of I when the       *)
(* system is assembled at angular frequency 0 and puts 0 there at every    *)
(* angular frequency greater than 0.                                       *)
(***************************************************************************)
C5_DCSourceExcitation ==
    Assembled =>
        \A k \in Positions :
            (/\ components[k].type = "DCVoltageSource"
             /\ Constrains(components[k])
             /\ OnlySourceOnNode(k)) =>
                currentVector[ConstrainedNode(components[k]) - 1] =
                    IF angFreq = 0 THEN <<components[k].props[1], 0>> ELSE CZero

(***************************************************************************)
(* C6.  A voltage source with n+ = n- is ignored: wherever it stands in    *)
(* the list, G and I are those of the list without it.                     *)
(***************************************************************************)
C6_ShortSourceIgnored ==
    Assembled =>
        \A k \in Positions :
            (IsVoltageSource(components[k])
                /\ components[k].nodes[1] = components[k].nodes[2]) =>
                /\ conductanceMatrix
                      = getConductanceMatrix(Remove(components, k), numNodes, angFreq)
                /\ currentVector \in CurrentVectors(Remove(components, k))

(***************************************************************************)
(* C7.  When two voltage sources constrain the same node, the row of G and *)
(* the entry of I of that node are those of the source that stands later   *)
(* in the list, wherever the two stand among the other devices.            *)
(***************************************************************************)
LastOnNode(k) ==
    \A j \in Positions :
        (j > k /\ Constrains(components[j])) =>
            ConstrainedNode(components[j]) # ConstrainedNode(components[k])

C7_LaterSourceWins ==
    Assembled =>
        \A j, k \in Positions :
            (/\ j < k
             /\ Constrains(components[j]) /\ Constrains(components[k])
             /\ ConstrainedNode(components[j]) = ConstrainedNode(components[k])
             /\ LastOnNode(k)) =>
                LET r == ConstrainedNode(components[k]) - 1
                IN  /\ RowOf(conductanceMatrix, r) = SourceRow(components[k])
                    /\ components[k].type = "ACVoltageSource" =>
                          currentVector[r] = Phasor(components[k])

(***************************************************************************)
(* C8.  A voltage-controlled current source of transconductance gm with    *)
(* output nodes (a, b) and control nodes (c, d) changes the assembled G by *)
(* G[a,c] += gm, G[a,d] -= gm, G[b,c] -= gm, G[b,d] += gm, entries with a  *)
(* ground row or column left out; with gm # 0, a # b and c # d all         *)
(* non-ground, G differs from the G of the circuit without the source.     *)
(***************************************************************************)
ControlledDelta(v, r, c) ==
    LET gm == <<YScale * v.props[1], 0>>
        At(n, m) == n # 0 /\ m # 0 /\ r = n - 1 /\ c = m - 1
    IN  CSub(CAdd(IF At(v.nodes[1], v.nodes[3]) THEN gm ELSE CZero,
                  IF At(v.nodes[2], v.nodes[4]) THEN gm ELSE CZero),
             CAdd(IF At(v.nodes[1], v.nodes[4]) THEN gm ELSE CZero,
                  IF At(v.nodes[2], v.nodes[3]) THEN gm ELSE CZero))

C8_ControlledSourceStamp ==
    MatrixReturned =>
        \A k \in Positions :
            (/\ components[k].type = "VoltageControlledCurrentSource"
             /\ \A j \in Positions \ {k} :
                   components[j].type # "VoltageControlledCurrentSource") =>
                LET without == getConductanceMatrix(Remove(components, k), numNodes, angFreq)
                    v == components[k]
                IN  /\ \A r \in Index, c \in Index :
                          conductanceMatrix[<<r, c>>] =
                              CAdd(without[<<r, c>>], ControlledDelta(v, r, c))
                    /\ (/\ \A n \in 1..4 : v.nodes[n] # 0
                        /\ v.nodes[1] # v.nodes[2]
                        /\ v.nodes[3] # v.nodes[4]) => conductanceMatrix # without

(***************************************************************************)
(* C10.  When the assembled G is rank deficient, as with a node no device  *)
(* is attached to (an all-zero row of G), solving ends in the Singular     *)
(* error and yields no node voltages: solveAtFrequency never returns a     *)
(* voltage vector for a singular system.                                   *)
(***************************************************************************)
HasZeroRow(G) == \E r \in Index : \A c \in Index : G[<<r, c>>] = CZero

C10_SingularReported ==
    (pc = "done" /\ HasZeroRow(conductanceMatrix)) => solution # "returned"

====
